---- MODULE Spec2Model ----
(***************************************************************************)
(* A model of scripts/server.py, the mock HTTP server of hola.nvim: one    *)
(* single-threaded HTTPServer whose SimpleHandler answers eleven routes.   *)
(*                                                                         *)
(* Text is modelled character by character: a str is a sequence of         *)
(* one-character strings, a bytes object a sequence of 0..255.  Header     *)
(* values are the str objects self.headers.get returns; a request body is  *)
(* the bytes the client put on the wire.  Only the request path, the       *)
(* method and the response header lines, which the code never takes        *)
(* apart, are kept as whole strings.                                       *)
(***************************************************************************)
EXTENDS Integers, Sequences, FiniteSets, TLC

VARIABLES
    boot,      \* time.time() when the server process started, in whole seconds
    uptime,    \* whole seconds the process has been up
    backlog,   \* connections the kernel queued for accept(), oldest first
    pc,        \* where serve_forever is: "idle", "handling" or "sleeping"
    conn,      \* the connection being handled: None or Some([id, req, origin])
    closed,    \* the connection the server last shut down, as its client saw it
    twin,      \* what a second, unused server process answered to the same request
    arrivals,  \* connections made so far (queue specification)
    served     \* the connections shut down so far, in order (queue specification)

vars == <<boot, uptime, backlog, pc, conn, closed, twin, arrivals, served>>

-----------------------------------------------------------------------------
(* Optional values: None is <<>>, a present value v is <<v>>.              *)

None == <<>>

Some(v) == <<v>>

\* Python's truth test of a header value: None and "" are both false.
Truthy(opt) == opt # None /\ opt[1] # <<>>

-----------------------------------------------------------------------------
(* Characters and bytes.                                                   *)

\* The printable ASCII characters, code 32 first.  The grave accent (96), which a
\* TLA+ string cannot hold, goes by its number like every non-ASCII code point.
Ascii == <<" ","!","\"","#","$","%","&","'","(",")","*","+",",","-",".","/","0","1","2","3","4","5","6","7",
        "8","9",":",";","<","=",">","?","@","A","B","C","D","E","F","G","H","I","J","K","L","M","N","O",
        "P","Q","R","S","T","U","V","W","X","Y","Z","[","\\","]","^","_","u96","a","b","c","d","e","f","g",
        "h","i","j","k","l","m","n","o","p","q","r","s","t","u","v","w","x","y","z","{","|","}","~">>

Digits == <<"0","1","2","3","4","5","6","7","8","9">>

\* ord(c) of an ASCII character.
Ord(c) == IF c = "\t" THEN 9 ELSE 31 + (CHOOSE i \in 1..Len(Ascii) : Ascii[i] = c)

\* chr(cp); a code point outside printable ASCII is named by its number.
Chr(cp) ==
    IF cp \in 32..126 THEN Ascii[cp - 31]
    ELSE IF cp = 9 THEN "\t"
    ELSE "u" \o ToString(cp)

\* The characters str.strip and int remove, among those below 256.
Whitespace == {" ", "\t"} \cup {Chr(cp) : cp \in {10, 11, 12, 13, 28, 29, 30, 31, 133, 160}}

\* str.encode of a pure-ASCII text: what a client writes on the wire.
Bytes(text) == [i \in 1..Len(text) |-> Ord(text[i])]

IsDigit(c) == \E i \in 1..10 : Digits[i] = c

DigitValue(c) == (CHOOSE i \in 1..10 : Digits[i] = c) - 1

-----------------------------------------------------------------------------
(* str methods the handlers call.                                          *)

Take(s, n) == SubSeq(s, 1, IF n < Len(s) THEN n ELSE Len(s))

Drop(s, n) == SubSeq(s, n + 1, Len(s))

\* s.startswith(p)
StartsWith(s, p) == Len(s) >= Len(p) /\ SubSeq(s, 1, Len(p)) = p

\* sub in s
Contains(s, sub) ==
    \E i \in 1..(Len(s) - Len(sub) + 1) : SubSeq(s, i, i + Len(sub) - 1) = sub

\* s.find(c) for a single character, 1-based; 0 when absent.
IndexOf(s, c) ==
    IF \E i \in 1..Len(s) : s[i] = c
    THEN CHOOSE i \in 1..Len(s) : s[i] = c /\ \A j \in 1..(i - 1) : s[j] # c
    ELSE 0

\* s.split(c, 1): one part when c is absent, else the parts around the first c.
SplitOnce(s, c) ==
    LET i == IndexOf(s, c)
    IN  IF i = 0 THEN <<s>> ELSE <<SubSeq(s, 1, i - 1), SubSeq(s, i + 1, Len(s))>>

\* s.split(c): every part, empty ones included.
RECURSIVE Split(_, _)
Split(s, c) ==
    LET i == IndexOf(s, c)
    IN  IF i = 0 THEN <<s>>
        ELSE <<SubSeq(s, 1, i - 1)>> \o Split(SubSeq(s, i + 1, Len(s)), c)

\* s.strip(): leading and trailing whitespace removed.
Strip(s) ==
    LET keep == {i \in 1..Len(s) : s[i] \notin Whitespace}
    IN  IF keep = {} THEN <<>>
        ELSE SubSeq(s, CHOOSE i \in keep : \A j \in keep : i <= j,
                       CHOOSE i \in keep : \A j \in keep : i >= j)

\* int(s) of a header value: surrounding whitespace, an optional sign, digits.
\* (Python also accepts single underscores between digits; no input has one.)
RECURSIVE DigitsValue(_, _)
DigitsValue(s, acc) ==
    IF s = <<>> THEN acc ELSE DigitsValue(Tail(s), 10 * acc + DigitValue(Head(s)))

ParseInt(s) ==
    LET Value(negative, d) ==
            IF d # <<>> /\ \A i \in 1..Len(d) : IsDigit(d[i])
            THEN [ok |-> TRUE,
                  val |-> IF negative THEN 0 - DigitsValue(d, 0) ELSE DigitsValue(d, 0)]
            ELSE [ok |-> FALSE, val |-> 0]
        Signed(t) ==
            IF t # <<>> /\ t[1] \in {"+", "-"} THEN Value(t[1] = "-", Tail(t)) ELSE Value(FALSE, t)
    IN  Signed(Strip(s))

\* str(n) of a non-negative int, as the f-string of _oauth_success formats it.
RECURSIVE IntToStr(_)
IntToStr(n) ==
    IF n < 10 THEN <<Digits[n + 1]>> ELSE IntToStr(n \div 10) \o <<Digits[(n % 10) + 1]>>

-----------------------------------------------------------------------------
(* base64.b64decode(s) with validate=False, as binascii.a2b_base64 runs    *)
(* it: characters outside the alphabet are skipped, each data character    *)
(* adds six bits, a run of "=" that completes a quad ends the input, and   *)
(* data left in a partial quad is an error.                                *)

B64Alphabet == <<"A","B","C","D","E","F","G","H","I","J","K","L","M","N","O","P","Q","R","S","T","U","V","W","X",
        "Y","Z","a","b","c","d","e","f","g","h","i","j","k","l","m","n","o","p","q","r","s","t","u","v",
        "w","x","y","z","0","1","2","3","4","5","6","7","8","9","+","/">>

IsB64(c) == \E i \in 1..64 : B64Alphabet[i] = c

B64Value(c) == (CHOOSE i \in 1..64 : B64Alphabet[i] = c) - 1

\* The characters of s that carry data, in order.
B64Data(s) == SelectSeq(s, IsB64)

\* The decoder's counters when it reads s[i]: quad is the number of data characters
\* read so far modulo 4; pads counts the "=" read since the last data character
\* (the decoder counts them only in a quad that holds two or three characters).
B64Quad(s, i) == Len(B64Data(SubSeq(s, 1, i - 1))) % 4

B64Pads(s, i) ==
    LET data == {j \in 1..(i - 1) : IsB64(s[j])}
        last == IF data = {} THEN 0 ELSE CHOOSE j \in data : \A k \in data : k <= j
    IN  Cardinality({j \in (last + 1)..(i - 1) : s[j] = "="})

\* The "=" at which the decoder stops reading: the one that completes a quad.
B64Stops(s, i) ==
    LET Completes(quad) == quad >= 2 /\ quad + B64Pads(s, i) + 1 >= 4
    IN  s[i] = "=" /\ Completes(B64Quad(s, i))

\* Byte k (from 1) of the output, from the six-bit values v of the data characters.
B64Byte(v, k) ==
    LET q == 4 * ((k - 1) \div 3)
    IN  CASE (k - 1) % 3 = 0 -> (v[q + 1] * 4 + v[q + 2] \div 16) % 256
          [] (k - 1) % 3 = 1 -> ((v[q + 2] % 16) * 16 + v[q + 3] \div 4) % 256
          [] (k - 1) % 3 = 2 -> ((v[q + 3] % 4) * 64 + v[q + 4]) % 256

B64Decode(s) ==
    LET Output(stopped, v) ==
            [ok |-> stopped \/ Len(v) % 4 = 0,
             bytes |-> [k \in 1..(3 * (Len(v) \div 4)
                                  + (IF Len(v) % 4 = 0 THEN 0 ELSE (Len(v) % 4) - 1))
                        |-> B64Byte(v, k)]]
        Values(stopped, data) == Output(stopped, [i \in 1..Len(data) |-> B64Value(data[i])])
        Read(stops) ==
            IF stops = {} THEN Values(FALSE, B64Data(s))
            ELSE Values(TRUE, B64Data(SubSeq(s, 1, (CHOOSE i \in stops : \A j \in stops : i <= j) - 1)))
    IN  Read({i \in 1..Len(s) : B64Stops(s, i)})

-----------------------------------------------------------------------------
(* bytes.decode("utf-8"), strict: a byte sequence that is not well-formed  *)
(* UTF-8 raises UnicodeDecodeError (ok = FALSE).                           *)

IsCont(b) == b \in 128..191

\* Number of continuation bytes the lead byte b announces; -1 for no lead byte.
Utf8Follow(b) ==
    IF b < 128 THEN 0
    ELSE IF b \in 194..223 THEN 1
    ELSE IF b \in 224..239 THEN 2
    ELSE IF b \in 240..244 THEN 3
    ELSE 0 - 1

\* The range the second byte of a sequence led by b must lie in.
Utf8Second(b) ==
    IF b = 224 THEN 160..191
    ELSE IF b = 237 THEN 128..159
    ELSE IF b = 240 THEN 144..191
    ELSE IF b = 244 THEN 128..143
    ELSE 128..191

RECURSIVE Utf8Loop(_, _, _)
Utf8Loop(b, i, acc) ==
    IF i > Len(b) THEN [ok |-> TRUE, text |-> acc]
    ELSE LET n == Utf8Follow(b[i])
         IN  IF n < 0 \/ i + n > Len(b) THEN [ok |-> FALSE, text |-> <<>>]
             ELSE IF n = 0 THEN Utf8Loop(b, i + 1, Append(acc, Chr(b[i])))
             ELSE IF b[i + 1] \notin Utf8Second(b[i])
                     \/ \E k \in 2..n : ~IsCont(b[i + k])
                  THEN [ok |-> FALSE, text |-> <<>>]
             ELSE LET lead == IF n = 1 THEN b[i] - 192
                              ELSE IF n = 2 THEN b[i] - 224 ELSE b[i] - 240
                      cp2 == lead * 64 + (b[i + 1] - 128)
                      cp3 == IF n >= 2 THEN cp2 * 64 + (b[i + 2] - 128) ELSE cp2
                      cp4 == IF n >= 3 THEN cp3 * 64 + (b[i + 3] - 128) ELSE cp3
                  IN  Utf8Loop(b, i + n + 1, Append(acc, Chr(cp4)))

\* Pure ASCII decodes byte by byte; anything else goes through the loop.
Utf8Decode(b) ==
    IF \A i \in 1..Len(b) : b[i] < 128
    THEN [ok |-> TRUE, text |-> [i \in 1..Len(b) |-> Chr(b[i])]]
    ELSE Utf8Loop(b, 1, <<>>)

-----------------------------------------------------------------------------
(* The json module, over the texts the handlers meet.  A value is          *)
(* tagged: [t |-> "str", v |-> chars], [t |-> "int", v |-> n],             *)
(* [t |-> "bool", v |-> b], [t |-> "null", v |-> <<>>],                    *)
(* [t |-> "list", v |-> values], [t |-> "dict", v |-> <<[k, v], ...>>]     *)
(* with the members in document order.  Of the string escapes only \",     *)
(* \\, \/ and \t are modelled, and numbers are integers: no input and no   *)
(* response of the server uses another form.                               *)

JStr(s) == [t |-> "str", v |-> s]

JInt(n) == [t |-> "int", v |-> n]

JBool(b) == [t |-> "bool", v |-> b]

JNull == [t |-> "null", v |-> <<>>]

JList(items) == [t |-> "list", v |-> items]

JDict(items) == [t |-> "dict", v |-> items]

\* dict.get(key) on members in insertion order: a repeated key keeps its last value.
Lookup(items, key) ==
    LET hits == {i \in 1..Len(items) : items[i].k = key}
    IN  IF hits = {} THEN None
        ELSE Some(items[CHOOSE i \in hits : \A j \in hits : j <= i].v)

\* value == "text" for the result of a dict.get.
IsText(opt, text) == opt # None /\ opt[1].t = "str" /\ opt[1].v = text

ControlChars == {Chr(i) : i \in 0..31}

JsonSpace == {" ", "\t"} \cup {Chr(10), Chr(13)}

RECURSIVE SkipWs(_, _)
SkipWs(s, i) == IF i <= Len(s) /\ s[i] \in JsonSpace THEN SkipWs(s, i + 1) ELSE i

Fail == [ok |-> FALSE, val |-> JNull, next |-> 0]

\* The characters of a string literal from index i (after the opening quote):
\* plain characters up to the next quote, backslash or control character at once.
RECURSIVE ScanString(_, _, _)
ScanString(s, i, acc) ==
    LET At(j, got) ==
            IF j > Len(s) \/ s[j] \in ControlChars THEN Fail
            ELSE IF s[j] = "\"" THEN [ok |-> TRUE, val |-> JStr(got), next |-> j + 1]
            ELSE IF j + 1 > Len(s) \/ s[j + 1] \notin {"\"", "\\", "/", "t"} THEN Fail
            ELSE ScanString(s, j + 2, Append(got, IF s[j + 1] = "t" THEN "\t" ELSE s[j + 1]))
        Upto(j) == At(j, acc \o SubSeq(s, i, j - 1))
        First(marks) ==
            IF marks = {} THEN Fail ELSE Upto(CHOOSE m \in marks : \A k \in marks : m <= k)
    IN  First({j \in i..Len(s) : s[j] \in {"\"", "\\"} \cup ControlChars})

RECURSIVE ScanDigits(_, _)
ScanDigits(s, i) == IF i <= Len(s) /\ IsDigit(s[i]) THEN ScanDigits(s, i + 1) ELSE i

ScanNumber(s, i) ==
    LET Number(neg, d, to) ==
            IF d = <<>> \/ (Len(d) > 1 /\ d[1] = "0") THEN Fail
            ELSE IF to <= Len(s) /\ s[to] \in {".", "e", "E"} THEN Fail
            ELSE [ok |-> TRUE,
                  val |-> JInt(IF neg THEN 0 - DigitsValue(d, 0) ELSE DigitsValue(d, 0)),
                  next |-> to]
        Span(neg, from, to) == Number(neg, SubSeq(s, from, to - 1), to)
        From(neg, from) == Span(neg, from, ScanDigits(s, from))
    IN  IF s[i] = "-" THEN From(TRUE, i + 1) ELSE From(FALSE, i)

ScanWord(s, i, word, val) ==
    IF i + Len(word) - 1 <= Len(s) /\ SubSeq(s, i, i + Len(word) - 1) = word
    THEN [ok |-> TRUE, val |-> val, next |-> i + Len(word)]
    ELSE Fail

RECURSIVE ParseValue(_, _)
RECURSIVE ParseElems(_, _, _)
RECURSIVE ParseMembers(_, _, _)

\* One JSON value starting at index i (no leading whitespace).
ParseValue(s, i) ==
    IF i > Len(s) THEN Fail
    ELSE IF s[i] = "\"" THEN ScanString(s, i + 1, <<>>)
    ELSE IF s[i] = "-" \/ IsDigit(s[i]) THEN ScanNumber(s, i)
    ELSE IF s[i] = "t" THEN ScanWord(s, i, <<"t","r","u","e">>, JBool(TRUE))
    ELSE IF s[i] = "f" THEN ScanWord(s, i, <<"f","a","l","s","e">>, JBool(FALSE))
    ELSE IF s[i] = "n" THEN ScanWord(s, i, <<"n","u","l","l">>, JNull)
    ELSE IF s[i] = "[" THEN
        LET Array(j) ==
                IF j <= Len(s) /\ s[j] = "]"
                THEN [ok |-> TRUE, val |-> JList(<<>>), next |-> j + 1]
                ELSE ParseElems(s, j, <<>>)
        IN  Array(SkipWs(s, i + 1))
    ELSE IF s[i] = "{" THEN
        LET Object(j) ==
                IF j <= Len(s) /\ s[j] = "}"
                THEN [ok |-> TRUE, val |-> JDict(<<>>), next |-> j + 1]
                ELSE ParseMembers(s, j, <<>>)
        IN  Object(SkipWs(s, i + 1))
    ELSE Fail

\* The elements of an array from index i, up to its closing bracket.
ParseElems(s, i, acc) ==
    LET After(got, j) ==
            IF j > Len(s) THEN Fail
            ELSE IF s[j] = "]" THEN [ok |-> TRUE, val |-> JList(got), next |-> j + 1]
            ELSE IF s[j] = "," THEN ParseElems(s, SkipWs(s, j + 1), got)
            ELSE Fail
        Elem(e) == IF ~e.ok THEN Fail ELSE After(Append(acc, e.val), SkipWs(s, e.next))
    IN  Elem(ParseValue(s, i))

\* The members of an object from index i, up to its closing brace.
ParseMembers(s, i, acc) ==
    LET After(got, j) ==
            IF j > Len(s) THEN Fail
            ELSE IF s[j] = "}" THEN [ok |-> TRUE, val |-> JDict(got), next |-> j + 1]
            ELSE IF s[j] = "," THEN ParseMembers(s, SkipWs(s, j + 1), got)
            ELSE Fail
        Member(k, e) ==
            IF ~e.ok THEN Fail
            ELSE After(Append(acc, [k |-> k.val.v, v |-> e.val]), SkipWs(s, e.next))
        Colon(k, c) ==
            IF c > Len(s) \/ s[c] # ":" THEN Fail
            ELSE Member(k, ParseValue(s, SkipWs(s, c + 1)))
        Key(k) == IF ~k.ok THEN Fail ELSE Colon(k, SkipWs(s, k.next))
    IN  IF i > Len(s) \/ s[i] # "\"" THEN Fail ELSE Key(ScanString(s, i + 1, <<>>))

\* json.loads(text): ok = FALSE stands for json.JSONDecodeError.
JsonLoads(text) ==
    LET Whole(r) ==
            IF r.ok /\ SkipWs(text, r.next) > Len(text)
            THEN [ok |-> TRUE, val |-> r.val]
            ELSE [ok |-> FALSE, val |-> JNull]
    IN  Whole(ParseValue(text, SkipWs(text, 1)))

\* The body of a string literal as json.dumps writes it: the text up to the next
\* character that needs a backslash, that character escaped, and so on.
RECURSIVE Escape(_)
Escape(s) ==
    LET At(j) ==
            SubSeq(s, 1, j - 1) \o <<"\\", IF s[j] = "\t" THEN "t" ELSE s[j]>>
            \o Escape(SubSeq(s, j + 1, Len(s)))
        First(marks) ==
            IF marks = {} THEN s ELSE At(CHOOSE m \in marks : \A k \in marks : m <= k)
    IN  First({j \in 1..Len(s) : s[j] \in {"\"", "\\", "\t"}})

RECURSIVE DumpMembers(_)

\* json.dumps(obj) with the default separators ", " and ": ".
JsonDumps(val) ==
    CASE val.t = "str" -> <<"\"">> \o Escape(val.v) \o <<"\"">>
      [] val.t = "int" -> IF val.v < 0 THEN <<"-">> \o IntToStr(0 - val.v) ELSE IntToStr(val.v)
      [] val.t = "bool" -> IF val.v THEN <<"t","r","u","e">> ELSE <<"f","a","l","s","e">>
      [] val.t = "null" -> <<"n","u","l","l">>
      [] val.t = "dict" -> <<"{">> \o DumpMembers(val.v) \o <<"}">>

DumpMembers(items) ==
    IF items = <<>> THEN <<>>
    ELSE <<"\"">> \o Escape(items[1].k) \o <<"\"",":"," ">> \o JsonDumps(items[1].v)
         \o (IF Len(items) > 1 THEN <<","," ">> ELSE <<>>) \o DumpMembers(Tail(items))

-----------------------------------------------------------------------------
(* Module constants of server.py.                                          *)

USERNAME == <<"a","d","m","i","n">>

PASSWORD == <<"s","e","c","r","e","t">>

BEARER_TOKEN == <<"a","b","c","1","2","3","-","d","e","f","4","5","6","-","g","h","i","7","8","9">>

API_KEY == <<"s","e","c","r","e","t","-","a","p","i","-","k","e","y","-","1","2","3">>

OAUTH_CLIENT_ID == <<"t","e","s","t","_","c","l","i","e","n","t","_","i","d">>

OAUTH_CLIENT_SECRET == <<"t","e","s","t","_","c","l","i","e","n","t","_","s","e","c","r","e","t">>

OAUTH_COGNITO_CLIENT_ID == <<"c","o","g","n","i","t","o","_","c","l","i","e","n","t","_","1","2","3">>

OAUTH_COGNITO_CLIENT_SECRET == <<"c","o","g","n","i","t","o","_","s","e","c","r","e","t","_","4","5","6">>

OAUTH_AUTH0_CLIENT_ID == <<"a","u","t","h","0","_","c","l","i","e","n","t","_","7","8","9">>

OAUTH_AUTH0_CLIENT_SECRET == <<"a","u","t","h","0","_","s","e","c","r","e","t","_","a","b","c">>

OAUTH_APIGEE_CLIENT_ID == <<"a","p","i","g","e","e","_","c","l","i","e","n","t","_","d","e","f">>

OAUTH_APIGEE_CLIENT_SECRET == <<"a","p","i","g","e","e","_","s","e","c","r","e","t","_","g","h","i">>

-----------------------------------------------------------------------------
(* Responses.  A response is [status, headers, body]: the status line      *)
(* send_response writes, the header lines send_header adds (the Server     *)
(* and Date lines of the library left out) and the text written to wfile.  *)
(* What a handler leaves behind is [wfile, raised]: the responses it       *)
(* wrote, and whether an exception left do_GET or do_POST.                 *)

ContentTypeJson == <<"Content-Type", "application/json">>

Reply(resp) == [wfile |-> <<resp>>, raised |-> FALSE]

Raise == [wfile |-> <<>>, raised |-> TRUE]

\* A dict literal: keys and values in the order written.
Obj(pairs) == JDict([i \in 1..Len(pairs) |-> [k |-> pairs[i][1], v |-> pairs[i][2]]])

_send_json(obj, status) ==
    [status |-> status, headers |-> <<ContentTypeJson>>, body |-> JsonDumps(obj)]

_unauthorized ==
    [status |-> 401,
     headers |-> <<<<"WWW-Authenticate", "Basic realm=\"Login Required\"">>, ContentTypeJson>>,
     body |-> <<"{","\"","e","r","r","o","r","\"",":","\"","U","n","a","u","t","h","o","r","i","z","e","d","\"","}">>]

_unauthorized_bearer ==
    [status |-> 401,
     headers |-> <<<<"WWW-Authenticate", "Bearer realm=\"API Access\"">>, ContentTypeJson>>,
     body |-> <<"{","\"","e","r","r","o","r","\"",":","\"","B","e","a","r","e","r"," ","t","o","k","e","n"," ","r",
        "e","q","u","i","r","e","d","\"","}">>]

_unauthorized_apikey ==
    [status |-> 401,
     headers |-> <<ContentTypeJson>>,
     body |-> <<"{","\"","e","r","r","o","r","\"",":","\"","I","n","v","a","l","i","d"," ","A","P","I"," ","k","e","y","\"","}">>]

\* The else branch of do_GET and do_POST: no send_header call.
NotFound ==
    [status |-> 404, headers |-> <<>>, body |-> <<"{","\"","e","r","r","o","r","\"",":","\"","N","o","t"," ","F","o","u","n","d","\"","}">>]

\* The decoded "identifier:secret" of a Basic header, as the try blocks of
\* /secure and _validate_basic_auth compute it; ok = FALSE when any step raises.
BasicCredentials(auth_header) ==
    LET Bad == [ok |-> FALSE, id |-> <<>>, secret |-> <<>>]
        Parts(parts) ==
            IF Len(parts) = 2 THEN [ok |-> TRUE, id |-> parts[1], secret |-> parts[2]] ELSE Bad
        Decoded(decoded) == IF decoded.ok THEN Parts(SplitOnce(decoded.text, ":")) ELSE Bad
        Raw(raw) == IF raw.ok THEN Decoded(Utf8Decode(raw.bytes)) ELSE Bad
    IN  Raw(B64Decode(SplitOnce(auth_header, " ")[2]))

_validate_basic_auth(headers, expected_client_id, expected_client_secret) ==
    LET Matches(c) == c.ok /\ c.id = expected_client_id /\ c.secret = expected_client_secret
        Check(auth_header) ==
            IF ~Truthy(auth_header) \/ ~StartsWith(auth_header[1], <<"B","a","s","i","c"," ">>) THEN FALSE
            ELSE Matches(BasicCredentials(auth_header[1]))
    IN  Check(headers.Authorization)

_oauth_error(error, description) ==
    _send_json(Obj(<<<<<<"e","r","r","o","r">>, JStr(error)>>>>
                   \o IF description # <<>>
                      THEN <<<<<<"e","r","r","o","r","_","d","e","s","c","r","i","p","t","i","o","n">>, JStr(description)>>>>
                      ELSE <<>>),
               400)

\* _oauth_success naming the moment of expiry instead of the lifetime.
_oauth_success_expires_at(token_suffix, t) ==
    _send_json(Obj(<<<<<<"a","c","c","e","s","s","_","t","o","k","e","n">>,
                       JStr(<<"o","a","u","t","h","_","t","o","k","e","n","_">> \o token_suffix \o <<"_">> \o IntToStr(t))>>,
                     <<<<"t","o","k","e","n","_","t","y","p","e">>, JStr(<<"B","e","a","r","e","r">>)>>,
                     <<<<"e","x","p","i","r","e","s","_","i","n">>, JInt(t + 3600)>>,
                     <<<<"s","c","o","p","e">>, JStr(<<"r","e","a","d",":","u","s","e","r","s"," ","w","r","i","t","e",":","o","r","d","e","r","s">>)>>>>),
               200)

\* t is int(time.time()) at the moment of the call.
_oauth_success(token_suffix, t) ==
    _send_json(Obj(<<<<<<"a","c","c","e","s","s","_","t","o","k","e","n">>,
                       JStr(<<"o","a","u","t","h","_","t","o","k","e","n","_">> \o token_suffix \o <<"_">> \o IntToStr(t))>>,
                     <<<<"t","o","k","e","n","_","t","y","p","e">>, JStr(<<"B","e","a","r","e","r">>)>>,
                     <<<<"e","x","p","i","r","e","s","_","i","n">>, JInt(3600)>>,
                     <<<<"s","c","o","p","e">>, JStr(<<"r","e","a","d",":","u","s","e","r","s"," ","w","r","i","t","e",":","o","r","d","e","r","s">>)>>>>),
               200)

-----------------------------------------------------------------------------
(* The GET routes.                                                         *)

Hello == _send_json(Obj(<<<<<<"h","e","l","l","o">>, JStr(<<"w","o","r","l","d">>)>>>>), 200)

Slow == _send_json(Obj(<<<<<<"s","t","a","t","u","s">>, JStr(<<"s","l","o","w"," ","r","e","s","p","o","n","s","e">>)>>>>), 200)

\* /bearer comparing only the start of the token with BEARER_TOKEN.
Bearer_startswith(headers) ==
    LET Token(token) ==
            IF StartsWith(token, BEARER_TOKEN)
            THEN _send_json(Obj(<<<<<<"b","e","a","r","e","r">>, JStr(<<"s","u","c","c","e","s","s">>)>>,
                                  <<<<"t","o","k","e","n">>, JStr(<<"v","a","l","i","d">>)>>>>), 200)
            ELSE _unauthorized_bearer
        Check(auth_header) ==
            IF ~Truthy(auth_header) \/ ~StartsWith(auth_header[1], <<"B","e","a","r","e","r"," ">>)
            THEN _unauthorized_bearer
            ELSE Token(Strip(SplitOnce(auth_header[1], " ")[2]))
    IN  Check(headers.Authorization)

Bearer(headers) ==
    LET Token(token) ==
            IF token = BEARER_TOKEN
            THEN _send_json(Obj(<<<<<<"b","e","a","r","e","r">>, JStr(<<"s","u","c","c","e","s","s">>)>>,
                                  <<<<"t","o","k","e","n">>, JStr(<<"v","a","l","i","d">>)>>>>), 200)
            ELSE _unauthorized_bearer
        Check(auth_header) ==
            IF ~Truthy(auth_header) \/ ~StartsWith(auth_header[1], <<"B","e","a","r","e","r"," ">>)
            THEN _unauthorized_bearer
            ELSE Token(Strip(SplitOnce(auth_header[1], " ")[2]))
    IN  Check(headers.Authorization)

\* /apikey looking at X-API-Key before Authorization.
ApiKeyOf_header_first(headers) ==
    LET auth_header == headers.Authorization
        api_key_header == headers.XApiKey
    IN  IF Truthy(api_key_header) THEN Some(Strip(api_key_header[1]))
        ELSE IF Truthy(auth_header) /\ StartsWith(auth_header[1], <<"A","p","i","K","e","y"," ">>)
        THEN Some(Strip(SplitOnce(auth_header[1], " ")[2]))
        ELSE None

\* The key /apikey settles on: None, or the stripped text of the header chosen.
ApiKeyOf(headers) ==
    LET auth_header == headers.Authorization
        api_key_header == headers.XApiKey
    IN  IF Truthy(auth_header) /\ StartsWith(auth_header[1], <<"A","p","i","K","e","y"," ">>)
        THEN Some(Strip(SplitOnce(auth_header[1], " ")[2]))
        ELSE IF Truthy(api_key_header) THEN Some(Strip(api_key_header[1]))
        ELSE None

Apikey(headers) ==
    LET Key(api_key) ==
            IF ~Truthy(api_key) THEN _unauthorized_apikey
            ELSE IF api_key[1] = API_KEY
            THEN _send_json(Obj(<<<<<<"a","p","i","k","e","y">>, JStr(<<"s","u","c","c","e","s","s">>)>>,
                                  <<<<"k","e","y">>, JStr(<<"v","a","l","i","d">>)>>>>), 200)
            ELSE _unauthorized_apikey
    IN  Key(ApiKeyOf(headers))

\* /oauth-test taking the provider one part too early.
OauthTest_second_part(headers) ==
    LET Provider(parts) == IF Len(parts) >= 3 THEN parts[2] ELSE <<"u","n","k","n","o","w","n">>
        Token(token) ==
            IF StartsWith(token, <<"o","a","u","t","h","_","t","o","k","e","n","_">>)
            THEN _send_json(Obj(<<<<<<"o","a","u","t","h","_","t","e","s","t">>, JStr(<<"s","u","c","c","e","s","s">>)>>,
                                  <<<<"t","o","k","e","n","_","v","a","l","i","d">>, JBool(TRUE)>>,
                                  <<<<"p","r","o","v","i","d","e","r">>, JStr(Provider(Split(token, "_")))>>,
                                  <<<<"t","o","k","e","n","_","p","r","e","f","i","x">>, JStr(Take(token, 20) \o <<".",".",".">>)>>>>),
                            200)
            ELSE _unauthorized_bearer
        Check(auth_header) ==
            IF ~Truthy(auth_header) \/ ~StartsWith(auth_header[1], <<"B","e","a","r","e","r"," ">>)
            THEN _unauthorized_bearer
            ELSE Token(Strip(SplitOnce(auth_header[1], " ")[2]))
    IN  Check(headers.Authorization)

OauthTest(headers) ==
    LET Provider(parts) == IF Len(parts) >= 3 THEN parts[3] ELSE <<"u","n","k","n","o","w","n">>
        Token(token) ==
            IF StartsWith(token, <<"o","a","u","t","h","_","t","o","k","e","n","_">>)
            THEN _send_json(Obj(<<<<<<"o","a","u","t","h","_","t","e","s","t">>, JStr(<<"s","u","c","c","e","s","s">>)>>,
                                  <<<<"t","o","k","e","n","_","v","a","l","i","d">>, JBool(TRUE)>>,
                                  <<<<"p","r","o","v","i","d","e","r">>, JStr(Provider(Split(token, "_")))>>,
                                  <<<<"t","o","k","e","n","_","p","r","e","f","i","x">>, JStr(Take(token, 20) \o <<".",".",".">>)>>>>),
                            200)
            ELSE _unauthorized_bearer
        Check(auth_header) ==
            IF ~Truthy(auth_header) \/ ~StartsWith(auth_header[1], <<"B","e","a","r","e","r"," ">>)
            THEN _unauthorized_bearer
            ELSE Token(Strip(SplitOnce(auth_header[1], " ")[2]))
    IN  Check(headers.Authorization)

\* do_GET taking "/hello/" for "/hello".
do_GET_trailing_slash(req, t) ==
    IF req.path \in {"/hello", "/hello/"} THEN Reply(Hello)
    ELSE IF req.path = "/slow" THEN Reply(Slow)
    ELSE IF req.path = "/bearer" THEN Reply(Bearer(req.headers))
    ELSE IF req.path = "/apikey" THEN Reply(Apikey(req.headers))
    ELSE IF req.path = "/oauth-test" THEN Reply(OauthTest(req.headers))
    ELSE Reply(NotFound)

\* What do_GET writes; for /slow, after its sleep.
do_GET(req, t) ==
    IF req.path = "/hello" THEN Reply(Hello)
    ELSE IF req.path = "/slow" THEN Reply(Slow)
    ELSE IF req.path = "/bearer" THEN Reply(Bearer(req.headers))
    ELSE IF req.path = "/apikey" THEN Reply(Apikey(req.headers))
    ELSE IF req.path = "/oauth-test" THEN Reply(OauthTest(req.headers))
    ELSE Reply(NotFound)

-----------------------------------------------------------------------------
(* The POST routes.                                                        *)

Echo == _send_json(Obj(<<<<<<"m","e","s","s","a","g","e">>, JStr(<<"T","h","i","s"," ","i","s"," ","a"," ","P","O","S","T"," ","r","e","s","p","o","n","s","e">>)>>>>), 200)

\* /secure checking the user name alone.
Secure_username_only(headers) ==
    LET Credentials(c) ==
            IF ~c.ok THEN _unauthorized
            ELSE IF c.id = USERNAME
            THEN _send_json(Obj(<<<<<<"s","e","c","u","r","e">>, JStr(<<"s","u","c","c","e","s","s">>)>>,
                                  <<<<"u","s","e","r">>, JStr(c.id)>>>>), 200)
            ELSE _unauthorized
        Check(auth_header) ==
            IF ~Truthy(auth_header) \/ ~StartsWith(auth_header[1], <<"B","a","s","i","c"," ">>)
            THEN _unauthorized
            ELSE Credentials(BasicCredentials(auth_header[1]))
    IN  Check(headers.Authorization)

Secure(headers) ==
    LET Credentials(c) ==
            IF ~c.ok THEN _unauthorized
            ELSE IF c.id = USERNAME /\ c.secret = PASSWORD
            THEN _send_json(Obj(<<<<<<"s","e","c","u","r","e">>, JStr(<<"s","u","c","c","e","s","s">>)>>,
                                  <<<<"u","s","e","r">>, JStr(c.id)>>>>), 200)
            ELSE _unauthorized
        Check(auth_header) ==
            IF ~Truthy(auth_header) \/ ~StartsWith(auth_header[1], <<"B","a","s","i","c"," ">>)
            THEN _unauthorized
            ELSE Credentials(BasicCredentials(auth_header[1]))
    IN  Check(headers.Authorization)

\* int(self.headers.get('Content-Length', 0)), then rfile.read(n).decode('utf-8').
\* ok = FALSE when int() or decode() raises.  A read of more than the client sent
\* returns at end of input what there is (the client has shut its sending side).
ReadBody(req) ==
    LET Raised == [ok |-> FALSE, text |-> <<>>]
        Decoded(body) == IF body.ok THEN [ok |-> TRUE, text |-> body.text] ELSE Raised
        Read(content_length) ==
            IF ~content_length.ok THEN Raised
            ELSE Decoded(Utf8Decode(IF content_length.val < 0 THEN req.body
                                    ELSE Take(req.body, content_length.val)))
    IN  Read(IF req.headers.ContentLength = None
             THEN [ok |-> TRUE, val |-> 0]
             ELSE ParseInt(req.headers.ContentLength[1]))

GrantTypeInBody == <<"g","r","a","n","t","_","t","y","p","e","=","c","l","i","e","n","t","_","c","r","e","d","e","n","t","i","a","l","s">>

ClientCredentials == <<"c","l","i","e","n","t","_","c","r","e","d","e","n","t","i","a","l","s">>

\* /oauth/token looking at the client before the grant type.
OauthToken_client_first(req, t) ==
    LET Body(body) ==
            IF ~body.ok THEN Raise
            ELSE IF ~_validate_basic_auth(req.headers, OAUTH_CLIENT_ID, OAUTH_CLIENT_SECRET)
            THEN Reply(_oauth_error(<<"i","n","v","a","l","i","d","_","c","l","i","e","n","t">>, <<"I","n","v","a","l","i","d"," ","c","l","i","e","n","t"," ","c","r","e","d","e","n","t","i","a","l","s">>))
            ELSE IF ~Contains(body.text, GrantTypeInBody)
            THEN Reply(_oauth_error(<<"u","n","s","u","p","p","o","r","t","e","d","_","g","r","a","n","t","_","t","y","p","e">>,
                                    <<"O","n","l","y"," ","c","l","i","e","n","t","_","c","r","e","d","e","n","t","i","a","l","s"," ",
        "s","u","p","p","o","r","t","e","d">>))
            ELSE Reply(_oauth_success(<<"g","e","n","e","r","i","c">>, t))
    IN  Body(ReadBody(req))

\* /oauth/token: Basic Auth and a form body.
OauthToken(req, t) ==
    LET Body(body) ==
            IF ~body.ok THEN Raise
            ELSE IF ~Contains(body.text, GrantTypeInBody)
            THEN Reply(_oauth_error(<<"u","n","s","u","p","p","o","r","t","e","d","_","g","r","a","n","t","_","t","y","p","e">>,
                                    <<"O","n","l","y"," ","c","l","i","e","n","t","_","c","r","e","d","e","n","t","i","a","l","s"," ",
        "s","u","p","p","o","r","t","e","d">>))
            ELSE IF _validate_basic_auth(req.headers, OAUTH_CLIENT_ID, OAUTH_CLIENT_SECRET)
            THEN Reply(_oauth_success(<<"g","e","n","e","r","i","c">>, t))
            ELSE Reply(_oauth_error(<<"i","n","v","a","l","i","d","_","c","l","i","e","n","t">>, <<"I","n","v","a","l","i","d"," ","c","l","i","e","n","t"," ","c","r","e","d","e","n","t","i","a","l","s">>))
    IN  Body(ReadBody(req))

\* /oauth2/token: the AWS Cognito style.
Oauth2Token(req, t) ==
    LET Body(body) ==
            IF ~body.ok THEN Raise
            ELSE IF ~Contains(body.text, GrantTypeInBody)
            THEN Reply(_oauth_error(<<"u","n","s","u","p","p","o","r","t","e","d","_","g","r","a","n","t","_","t","y","p","e">>, <<>>))
            ELSE IF _validate_basic_auth(req.headers, OAUTH_COGNITO_CLIENT_ID,
                                         OAUTH_COGNITO_CLIENT_SECRET)
            THEN Reply(_oauth_success(<<"c","o","g","n","i","t","o">>, t))
            ELSE Reply(_oauth_error(<<"i","n","v","a","l","i","d","_","c","l","i","e","n","t">>, <<>>))
    IN  Body(ReadBody(req))

\* /oauth/token/auth0: a JSON body.  Only json.JSONDecodeError is caught: data.get
\* on a value that is no dict raises AttributeError, which leaves do_POST.
OauthTokenAuth0(req, t) ==
    LET Data(data) ==
            IF ~data.ok
            THEN Reply(_oauth_error(<<"i","n","v","a","l","i","d","_","r","e","q","u","e","s","t">>, <<"I","n","v","a","l","i","d"," ","J","S","O","N"," ","b","o","d","y">>))
            ELSE IF data.val.t # "dict" THEN Raise
            ELSE IF ~IsText(Lookup(data.val.v, <<"g","r","a","n","t","_","t","y","p","e">>), ClientCredentials)
            THEN Reply(_oauth_error(<<"u","n","s","u","p","p","o","r","t","e","d","_","g","r","a","n","t","_","t","y","p","e">>, <<>>))
            ELSE IF /\ IsText(Lookup(data.val.v, <<"c","l","i","e","n","t","_","i","d">>), OAUTH_AUTH0_CLIENT_ID)
                    /\ IsText(Lookup(data.val.v, <<"c","l","i","e","n","t","_","s","e","c","r","e","t">>), OAUTH_AUTH0_CLIENT_SECRET)
            THEN Reply(_oauth_success(<<"a","u","t","h","0">>, t))
            ELSE Reply(_oauth_error(<<"i","n","v","a","l","i","d","_","c","l","i","e","n","t">>, <<>>))
        Body(body) == IF ~body.ok THEN Raise ELSE Data(JsonLoads(body.text))
    IN  Body(ReadBody(req))

\* The params dict of /oauth/v2/accesstoken: the body split on "&", each part
\* that holds "=" split at its first "=".
RECURSIVE FormPairs(_)
FormPairs(parts) ==
    IF parts = <<>> THEN <<>>
    ELSE (IF IndexOf(Head(parts), "=") # 0
          THEN LET kv == SplitOnce(Head(parts), "=")
               IN  <<[k |-> kv[1], v |-> JStr(kv[2])]>>
          ELSE <<>>) \o FormPairs(Tail(parts))

ParseForm(body) == FormPairs(Split(body, "&"))

\* /oauth/v2/accesstoken: the Apigee style, everything in the form body.
OauthV2Accesstoken(req, t) ==
    LET Params(params) ==
            IF ~IsText(Lookup(params, <<"g","r","a","n","t","_","t","y","p","e">>), ClientCredentials)
            THEN Reply(_oauth_error(<<"u","n","s","u","p","p","o","r","t","e","d","_","g","r","a","n","t","_","t","y","p","e">>, <<>>))
            ELSE IF /\ IsText(Lookup(params, <<"c","l","i","e","n","t","_","i","d">>), OAUTH_APIGEE_CLIENT_ID)
                    /\ IsText(Lookup(params, <<"c","l","i","e","n","t","_","s","e","c","r","e","t">>), OAUTH_APIGEE_CLIENT_SECRET)
            THEN Reply(_oauth_success(<<"a","p","i","g","e","e">>, t))
            ELSE Reply(_oauth_error(<<"i","n","v","a","l","i","d","_","c","l","i","e","n","t">>, <<>>))
        Body(body) == IF ~body.ok THEN Raise ELSE Params(ParseForm(body.text))
    IN  Body(ReadBody(req))

do_POST(req, t) ==
    IF req.path = "/echo" THEN Reply(Echo)
    ELSE IF req.path = "/secure" THEN Reply(Secure(req.headers))
    ELSE IF req.path = "/oauth/token" THEN OauthToken(req, t)
    ELSE IF req.path = "/oauth2/token" THEN Oauth2Token(req, t)
    ELSE IF req.path = "/oauth/token/auth0" THEN OauthTokenAuth0(req, t)
    ELSE IF req.path = "/oauth/v2/accesstoken" THEN OauthV2Accesstoken(req, t)
    ELSE Reply(NotFound)

\* handle_one_request: getattr(self, 'do_' + self.command).
Handle(req, t) == IF req.method = "GET" THEN do_GET(req, t) ELSE do_POST(req, t)

-----------------------------------------------------------------------------
(* The requests clients send.                                              *)

GetRoutes == {"/hello", "/slow", "/bearer", "/apikey", "/oauth-test"}

TokenEndpoints ==
    {"/oauth/token", "/oauth2/token", "/oauth/token/auth0", "/oauth/v2/accesstoken"}

PostRoutes == {"/echo", "/secure"} \cup TokenEndpoints

\* Paths no route has: a query string, a trailing slash, another case, the root.
OtherPaths == {"/", "/nope", "/hello?x=1", "/hello/", "/Hello", "/oauth/token?x=1"}

Paths == GetRoutes \cup PostRoutes \cup OtherPaths

IsRoute(req) ==
    \/ req.method = "GET" /\ req.path \in GetRoutes
    \/ req.method = "POST" /\ req.path \in PostRoutes

\* Authorization values, as self.headers.get returns them (the parser has
\* removed leading blanks and kept trailing ones).
BasicHeaders ==
    { <<"B","a","s","i","c"," ","Y","W","R","t","a","W","4","6","c","2","V","j","c","m","V","0">>,          \* admin:secret
      <<"B","a","s","i","c"," ","Y","W","R","t"," ","a","W","4","6","c","2","V","j","c","m","V","0","=","=">>,       \* the same, with a blank and padding the decoder skips
      <<"B","a","s","i","c"," ","Y","W","R","t","a","W","4","6","d","3","J","v","b","m","c","=">>,          \* admin:wrong
      <<"B","a","s","i","c"," ","c","m","9","v","d","D","p","z","Z","W","N","y","Z","X","Q","=">>,          \* root:secret
      <<"B","a","s","i","c"," ","Y","W","R","t","a","W","4","6","c","2","V","j","c","m","V","0","O","m","V","4","d","H","J","h">>,  \* admin:secret:extra
      <<"B","a","s","i","c"," ","Y","W","R","t","a","W","4","=">>,                  \* admin (no colon)
      <<"B","a","s","i","c"," ","Y","W","R","t","a","W","4">>,                   \* incorrect padding: b64decode raises
      <<"B","a","s","i","c"," ","Y","W","R","t","a","W","4","6","/","w","=","=">>,              \* admin: and the byte 0xFF: decode raises
      <<"B","a","s","i","c"," ">>,                          \* nothing after the scheme
      <<"b","a","s","i","c"," ","Y","W","R","t","a","W","4","6","c","2","V","j","c","m","V","0">>,          \* the scheme in another case
      <<"B","a","s","i","c"," ","d","G","V","z","d","F","9","j","b","G","l","l","b","n","R","f","a","W",
        "Q","6","d","G","V","z","d","F","9","j","b","G","l","l","b","n","R","f","c","2","V","j","c","m",
        "V","0">>,  \* the generic client
      <<"B","a","s","i","c"," ","Y","2","9","n","b","m","l","0","b","1","9","j","b","G","l","l","b","n",
        "R","f","M","T","I","z","O","m","N","v","Z","2","5","p","d","G","9","f","c","2","V","j","c","m",
        "V","0","X","z","Q","1","N","g","=","=">>,  \* the Cognito client
      <<"B","a","s","i","c"," ","Y","X","V","0","a","D","B","f","Y","2","x","p","Z","W","5","0","X","z",
        "c","4","O","T","p","h","d","X","R","o","M","F","9","z","Z","W","N","y","Z","X","R","f","Y","W",
        "J","j">> }  \* the Auth0 client

BearerHeaders ==
    { <<"B","e","a","r","e","r"," ","a","b","c","1","2","3","-","d","e","f","4","5","6","-","g","h","i","7","8","9">>,
      <<"B","e","a","r","e","r"," ","a","b","c","1","2","3","-","d","e","f","4","5","6","-","g","h","i","7","8","9">> \o <<Chr(160)>>,
      <<"B","e","a","r","e","r"," "," ","\t","a","b","c","1","2","3","-","d","e","f","4","5","6","-","g","h","i","7","8","9">>,
      <<"B","e","a","r","e","r"," ">> \o <<Chr(160)>> \o <<"a","b","c","1","2","3","-","d","e","f","4","5","6","-","g","h","i","7","8","9">>,
      <<"B","e","a","r","e","r"," ","a","b","c","1","2","3","-","d","e","f","4","5","6","-","g","h","i","7","8">>,
      <<"B","e","a","r","e","r"," ","a","b","c","1","2","3","-","d","e","f","4","5","6","-","g","h","i","7","8","9","x">>,
      <<"B","e","a","r","e","r"," ">>,
      <<"B","e","a","r","e","r">>,
      <<"b","e","a","r","e","r"," ","a","b","c","1","2","3","-","d","e","f","4","5","6","-","g","h","i","7","8","9">>,
      <<"B","e","a","r","e","r"," ","o","a","u","t","h","_","t","o","k","e","n","_","c","o","g","n","i",
        "t","o","_","1","7","0","0","0","0","0","0","0","0">>,
      <<"B","e","a","r","e","r"," ","o","a","u","t","h","_","t","o","k","e","n","_","a","u","t","h","0",
        "_","1","7","0","0","0","0","0","0","0","0">>,
      <<"B","e","a","r","e","r"," ","o","a","u","t","h","_","t","o","k","e","n","_">>,
      <<"B","e","a","r","e","r"," ","o","a","u","t","h","_","t","o","k","e","n","_","x">>,
      <<"B","e","a","r","e","r"," ","o","a","u","t","h","_","t","o","k","e","n","_","a","\"","b","\\","c","_","1">>,
      <<"B","e","a","r","e","r"," ","o","a","u","t","h","_","t","o","k","e","n","X","_","1">>,
      <<"B","e","a","r","e","r"," ","s","e","c","r","e","t","-","a","p","i","-","k","e","y","-","1","2","3">> }

ApiKeyHeaders ==
    { <<"A","p","i","K","e","y"," ","s","e","c","r","e","t","-","a","p","i","-","k","e","y","-","1","2","3">>,
      <<"A","p","i","K","e","y"," ","\t","s","e","c","r","e","t","-","a","p","i","-","k","e","y","-","1","2","3"," ">>,
      <<"A","p","i","K","e","y"," ","w","r","o","n","g","-","k","e","y">>,
      <<"A","p","i","K","e","y"," ">>,
      <<"A","p","i","K","e","y">>,
      <<"a","p","i","k","e","y"," ","s","e","c","r","e","t","-","a","p","i","-","k","e","y","-","1","2","3">> }

AuthorizationValues ==
    {None, Some(<<>>)} \cup {Some(h) : h \in BasicHeaders \cup BearerHeaders \cup ApiKeyHeaders}

XApiKeyValues ==
    {None, Some(<<"s","e","c","r","e","t","-","a","p","i","-","k","e","y","-","1","2","3">>), Some(<<"s","e","c","r","e","t","-","a","p","i","-","k","e","y","-","1","2","3">> \o <<Chr(160)>>), Some(<<"w","r","o","n","g","-","k","e","y">>)}

\* Request bodies, as bytes on the wire.
FormBodies ==
    { <<"g","r","a","n","t","_","t","y","p","e","=","c","l","i","e","n","t","_","c","r","e","d","e","n","t","i","a","l","s">>,
      <<"g","r","a","n","t","_","t","y","p","e","=","p","a","s","s","w","o","r","d">>,
      <<"g","r","a","n","t","_","t","y","p","e","=","c","l","i","e","n","t","_","c","r","e","d","e","n","t","i","a","l","s","X">>,
      <<"s","c","o","p","e","=","a","&","g","r","a","n","t","_","t","y","p","e","=","c","l","i","e","n",
        "t","_","c","r","e","d","e","n","t","i","a","l","s","&","c","l","i","e","n","t","_","i","d","=",
        "a","p","i","g","e","e","_","c","l","i","e","n","t","_","d","e","f","&","c","l","i","e","n","t",
        "_","s","e","c","r","e","t","=","a","p","i","g","e","e","_","s","e","c","r","e","t","_","g","h",
        "i">>,
      <<"g","r","a","n","t","_","t","y","p","e","=","c","l","i","e","n","t","_","c","r","e","d","e","n",
        "t","i","a","l","s","&","c","l","i","e","n","t","_","i","d","=","a","u","t","h","0","_","c","l",
        "i","e","n","t","_","7","8","9","&","c","l","i","e","n","t","_","s","e","c","r","e","t","=","a",
        "u","t","h","0","_","s","e","c","r","e","t","_","a","b","c">>,
      <<"g","r","a","n","t","_","t","y","p","e","=","c","l","i","e","n","t","_","c","r","e","d","e","n",
        "t","i","a","l","s","&","c","l","i","e","n","t","_","i","d","=","a","p","i","g","e","e","_","c",
        "l","i","e","n","t","_","d","e","f","&","c","l","i","e","n","t","_","s","e","c","r","e","t","=",
        "w","r","o","n","g">>,
      <<"g","r","a","n","t","_","t","y","p","e","=","p","a","s","s","w","o","r","d","&","c","l","i","e",
        "n","t","_","i","d","=","a","p","i","g","e","e","_","c","l","i","e","n","t","_","d","e","f","&",
        "c","l","i","e","n","t","_","s","e","c","r","e","t","=","a","p","i","g","e","e","_","s","e","c",
        "r","e","t","_","g","h","i">>,
      <<"g","r","a","n","t","_","t","y","p","e","=","p","a","s","s","w","o","r","d","&","g","r","a","n",
        "t","_","t","y","p","e","=","c","l","i","e","n","t","_","c","r","e","d","e","n","t","i","a","l",
        "s","&","c","l","i","e","n","t","_","i","d","=","a","p","i","g","e","e","_","c","l","i","e","n",
        "t","_","d","e","f","&","c","l","i","e","n","t","_","s","e","c","r","e","t","=","a","p","i","g",
        "e","e","_","s","e","c","r","e","t","_","g","h","i">> }

JsonBodies ==
    { <<"{","\"","g","r","a","n","t","_","t","y","p","e","\"",":","\"","c","l","i","e","n","t","_","c","r",
        "e","d","e","n","t","i","a","l","s","\"",",","\"","c","l","i","e","n","t","_","i","d","\"",":","\"",
        "a","u","t","h","0","_","c","l","i","e","n","t","_","7","8","9","\"",",","\"","c","l","i","e","n",
        "t","_","s","e","c","r","e","t","\"",":","\"","a","u","t","h","0","_","s","e","c","r","e","t","_",
        "a","b","c","\"","}">>,
      <<"{","\"","g","r","a","n","t","_","t","y","p","e","\"",":"," ","\"","c","l","i","e","n","t","_","c",
        "r","e","d","e","n","t","i","a","l","s","\"",","," ","\"","c","l","i","e","n","t","_","i","d","\"",
        ":"," ","\"","a","p","i","g","e","e","_","c","l","i","e","n","t","_","d","e","f","\"",","," ","\"",
        "c","l","i","e","n","t","_","s","e","c","r","e","t","\"",":"," ","\"","a","p","i","g","e","e","_",
        "s","e","c","r","e","t","_","g","h","i","\"","}">>,
      <<"{","\"","g","r","a","n","t","_","t","y","p","e","\"",":","\"","p","a","s","s","w","o","r","d","\"",
        ",","\"","c","l","i","e","n","t","_","i","d","\"",":","\"","a","u","t","h","0","_","c","l","i","e",
        "n","t","_","7","8","9","\"",",","\"","c","l","i","e","n","t","_","s","e","c","r","e","t","\"",":",
        "\"","a","u","t","h","0","_","s","e","c","r","e","t","_","a","b","c","\"","}">>,
      <<"{","\"","g","r","a","n","t","_","t","y","p","e","\"",":","\"","c","l","i","e","n","t","_","c","r",
        "e","d","e","n","t","i","a","l","s","\"",",","\"","c","l","i","e","n","t","_","i","d","\"",":","\"",
        "a","u","t","h","0","_","c","l","i","e","n","t","_","7","8","9","\"","}">>,
      <<"{","\"","g","r","a","n","t","_","t","y","p","e","\"",":","1","}">>,
      <<"{","\"","g","r","a","n","t","_","t","y","p","e","\"",":","\"","c","l","i","e","n","t","_","c","r",
        "e","d","e","n","t","i","a","l","s","\"">>,
      <<"[","1","]">>,
      <<"n","u","l","l">>,
      <<"\"","g","r","a","n","t","_","t","y","p","e","=","c","l","i","e","n","t","_","c","r","e","d","e","n","t","i","a","l","s","\"">> }

Bodies ==
    {<<>>, <<255, 254>>, <<103, 114, 97, 110, 116, 195, 169>>}
        \cup {Bytes(b) : b \in FormBodies \cup JsonBodies}

\* Content-Length of a request with body b: absent, right, short, or no number.
ContentLengths(b) == {None, Some(IntToStr(Len(b))), Some(<<"5">>), Some(<<"a","b","c">>)}

Request(m, p, a, x, n, b) ==
    [method |-> m, path |-> p, body |-> b,
     headers |-> [Authorization |-> a, XApiKey |-> x, ContentLength |-> n]]

\* Every Authorization value on every route, with and without an X-API-Key
\* (every X-API-Key value on /apikey); no body.
RouteRequests ==
    { Request(m, p, a, x, None, <<>>)
      : m \in {"GET"}, p \in GetRoutes, a \in AuthorizationValues, x \in XApiKeyValues }
    \cup
    { Request(m, p, a, None, None, <<>>)
      : m \in {"POST"}, p \in PostRoutes, a \in AuthorizationValues }

\* Every other pairing of a method with a path, with credentials that would pass.
UnroutedRequests ==
    { r \in { Request(m, p, a, x, None, <<>>)
              : m \in {"GET", "POST"}, p \in Paths,
                a \in {None, Some(<<"B","e","a","r","e","r"," ","a","b","c","1","2","3","-","d","e","f","4","5","6","-","g","h","i","7","8","9">>), Some(<<"B","a","s","i","c"," ","Y","W","R","t","a","W","4","6","c","2","V","j","c","m","V","0">>)},
                x \in {None, Some(<<"s","e","c","r","e","t","-","a","p","i","-","k","e","y","-","1","2","3">>)} }
      : ~IsRoute(r) }

BodyAuthorizations ==
    { None,
      Some(<<"B","a","s","i","c"," ","d","G","V","z","d","F","9","j","b","G","l","l","b","n","R","f","a","W",
        "Q","6","d","G","V","z","d","F","9","j","b","G","l","l","b","n","R","f","c","2","V","j","c","m",
        "V","0">>),
      Some(<<"B","a","s","i","c"," ","Y","2","9","n","b","m","l","0","b","1","9","j","b","G","l","l","b","n",
        "R","f","M","T","I","z","O","m","N","v","Z","2","5","p","d","G","9","f","c","2","V","j","c","m",
        "V","0","X","z","Q","1","N","g","=","=">>),
      Some(<<"B","a","s","i","c"," ","Y","W","R","t","a","W","4">>) }

\* POST requests with a body, to the token endpoints.
BodyRequests ==
    UNION { { Request("POST", p, a, None, n, b)
              : p \in TokenEndpoints, a \in BodyAuthorizations, n \in ContentLengths(b) }
            : b \in Bodies \ {<<>>} }

Requests == RouteRequests \cup UnroutedRequests \cup BodyRequests

\* The requests of the queue specification: a slow one, quick ones, one that raises.
QueueRequests ==
    { r \in Requests :
        /\ r.headers.XApiKey = None
        /\ \/ r.method = "GET" /\ r.path \in {"/slow", "/hello"} /\ r.headers.Authorization = None
           \/ /\ r.method = "POST" /\ r.path = "/oauth/token"
              /\ r.body = Bytes(<<"g","r","a","n","t","_","t","y","p","e","=","c","l","i","e","n","t","_","c","r","e","d","e","n","t","i","a","l","s">>)
              /\ r.headers.Authorization = None
              /\ r.headers.ContentLength \in {Some(<<"a","b","c">>), Some(<<"2","9">>)} }

-----------------------------------------------------------------------------
(* The server: HTTPServer.serve_forever with SimpleHandler, one thread.    *)

\* Seconds of server time a behaviour covers before clients stop connecting.
MaxUptime == 2

\* Connections the queue specification makes.
MaxConn == 3

\* Clock readings at which a server process is started.
StartTimes == {1700000000}

\* int(time.time())
now == boot + uptime

Connection(id, req, origin) == [id |-> id, req |-> req, origin |-> origin]

Init ==
    /\ boot \in StartTimes
    /\ uptime = 0
    /\ backlog = <<>>
    /\ pc = "idle"
    /\ conn = None
    /\ closed = None
    /\ twin = None
    /\ arrivals = 0
    /\ served = <<>>

\* A client connects and sends req; the kernel queues the connection.  (One
\* exchange at a time here, and none once MaxUptime seconds have passed: /slow
\* would otherwise let the clock run on for ever.)
ClientRequest(req) ==
    /\ pc = "idle" /\ backlog = <<>> /\ closed = None
    /\ uptime < MaxUptime
    /\ backlog' = <<Connection(0, req, None)>>
    /\ UNCHANGED <<boot, uptime, pc, conn, closed, twin, arrivals, served>>

\* The access_token of a token endpoint's 200 answer.
IssuedToken(c) ==
    LET body == JsonLoads(c.wfile[1].body)
    IN  Lookup(body.val.v, <<"a","c","c","e","s","s","_","t","o","k","e","n">>)[1].v

HoldsToken(c) ==
    /\ c.req.method = "POST" /\ c.req.path \in TokenEndpoints
    /\ c.wfile # <<>> /\ c.wfile[1].status = 200

\* The client that was just issued a token presents it to GET /oauth-test.
ClientPresent ==
    /\ pc = "idle" /\ backlog = <<>> /\ closed # None
    /\ HoldsToken(closed[1])
    /\ backlog' = <<Connection(0,
                       [method |-> "GET", path |-> "/oauth-test", body |-> <<>>,
                        headers |-> [Authorization |-> Some(<<"B","e","a","r","e","r"," ">> \o IssuedToken(closed[1])),
                                     XApiKey |-> None, ContentLength |-> None]],
                       Some(closed[1].req.path))>>
    /\ closed' = None
    /\ twin' = None
    /\ UNCHANGED <<boot, uptime, pc, conn, arrivals, served>>

\* The client has read its answer and is gone.
ClientLeave ==
    /\ closed # None
    /\ closed' = None
    /\ twin' = None
    /\ UNCHANGED <<boot, uptime, backlog, pc, conn, arrivals, served>>

\* A client of the queue specification connects, whatever the server is doing.
QueueConnect(req) ==
    /\ arrivals < MaxConn
    /\ arrivals' = arrivals + 1
    /\ backlog' = Append(backlog, Connection(arrivals + 1, req, None))
    /\ UNCHANGED <<boot, uptime, pc, conn, closed, twin, served>>

\* Time passes between two exchanges.  (A handler reads the clock once at most, so
\* a second that passes while a request waits or is handled is one that passed
\* before it came; the second time.sleep takes is SlowWake's.)
Tick ==
    /\ pc = "idle" /\ backlog = <<>> /\ closed = None
    /\ uptime < MaxUptime
    /\ uptime' = uptime + 1
    /\ UNCHANGED <<boot, backlog, pc, conn, closed, twin, arrivals, served>>

\* serve_forever takes the oldest queued connection; the library parses the request.
Accept ==
    /\ pc = "idle" /\ backlog # <<>>
    /\ conn' = Some(Head(backlog))
    /\ backlog' = Tail(backlog)
    /\ pc' = "handling"
    /\ UNCHANGED <<boot, uptime, closed>>

\* The handler returned or raised: shutdown_request closes the connection.
Finish(outcome) ==
    /\ closed' = Some([id |-> conn[1].id, req |-> conn[1].req, origin |-> conn[1].origin,
                       wfile |-> outcome.wfile, raised |-> outcome.raised])
    /\ conn' = None
    /\ pc' = "idle"

\* do_GET up to its response, or up to time.sleep(1) on /slow.
HandleGet ==
    /\ pc = "handling" /\ conn[1].req.method = "GET"
    /\ IF conn[1].req.path = "/slow"
       THEN pc' = "sleeping" /\ UNCHANGED <<conn, closed>>
       ELSE Finish(do_GET(conn[1].req, now))
    /\ UNCHANGED <<boot, uptime, backlog>>

\* time.sleep(1) returns, a second later at least, and /slow answers.
SlowWake ==
    /\ pc = "sleeping"
    /\ uptime' = uptime + 1
    /\ Finish(do_GET(conn[1].req, now + 1))
    /\ UNCHANGED <<boot, backlog>>

HandlePost ==
    /\ pc = "handling" /\ conn[1].req.method = "POST"
    /\ Finish(do_POST(conn[1].req, now))
    /\ UNCHANGED <<boot, uptime, backlog>>

\* A second server process, started at boot and never used, is sent the request
\* the first one has just answered; twin is what its client sees.
TwinAnswer ==
    /\ closed # None /\ twin = None
    /\ twin' = Some(Handle(closed[1].req,
                           IF closed[1].req.method = "GET" /\ closed[1].req.path = "/slow"
                           THEN boot + 1 ELSE boot))
    /\ UNCHANGED <<boot, uptime, backlog, pc, conn, closed, arrivals, served>>

\* The queue specification's record of the connection just closed.
Record ==
    /\ served' = IF closed' # closed
                 THEN Append(served, [id |-> closed'[1].id, replied |-> closed'[1].wfile # <<>>])
                 ELSE served
    /\ UNCHANGED <<twin, arrivals>>

Next ==
    \/ \E req \in Requests : ClientRequest(req)
    \/ ClientPresent
    \/ ClientLeave
    \/ Tick
    \/ TwinAnswer
    \/ Accept /\ UNCHANGED <<twin, arrivals, served>>
    \/ HandleGet /\ UNCHANGED <<twin, arrivals, served>>
    \/ SlowWake /\ UNCHANGED <<twin, arrivals, served>>
    \/ HandlePost /\ UNCHANGED <<twin, arrivals, served>>

Spec == Init /\ [][Next]_vars

NextQueue ==
    \/ \E req \in QueueRequests : QueueConnect(req)
    \/ Tick
    \/ Accept /\ Record
    \/ HandleGet /\ Record
    \/ SlowWake /\ Record
    \/ HandlePost /\ Record

SpecQueue == Init /\ [][NextQueue]_vars

-----------------------------------------------------------------------------
(* What the claims speak of: the exchange just finished, closed[1].        *)

\* The response of an exchange that sent exactly one and raised nothing.
Answered(c) == ~c.raised /\ Len(c.wfile) = 1

HasHeader(resp, name, value) ==
    \E h \in 1..Len(resp.headers) : resp.headers[h] = <<name, value>>

HasHeaderNamed(resp, name) ==
    \E h \in 1..Len(resp.headers) : resp.headers[h][1] = name

\* The body read as JSON: None when it is no JSON text.
BodyJson(resp) ==
    LET Read(r) == IF r.ok THEN Some(r.val) ELSE None
    IN  Read(JsonLoads(resp.body))

\* The body is the JSON object with exactly these members, in any notation.
BodyIs(resp, pairs) == BodyJson(resp) = Some(Obj(pairs))

\* The body is a JSON object with an "error" member.
IsErrorBody(resp) ==
    LET Shown(j) == j # None /\ j[1].t = "dict" /\ Lookup(j[1].v, <<"e","r","r","o","r">>) # None
    IN  Shown(BodyJson(resp))

\* A 400 answer of a token endpoint naming this error.
IsOauthError(resp, error) ==
    LET Shown(j) == j # None /\ j[1].t = "dict" /\ IsText(Lookup(j[1].v, <<"e","r","r","o","r">>), error)
    IN  resp.status = 400 /\ Shown(BodyJson(resp))

On(c, method, path) == c.req.method = method /\ c.req.path = path

-----------------------------------------------------------------------------
\* C1: every GET or POST request to one of the eleven routes, whatever its
\* headers and body, ends with exactly one response, of status 200, 400 or 401
\* and with a well-formed JSON body, and no exception leaves do_GET or do_POST.
C1_OneJsonResponse ==
    closed # None /\ IsRoute(closed[1].req) =>
        /\ Answered(closed[1])
        /\ closed[1].wfile[1].status \in {200, 400, 401}
        /\ BodyJson(closed[1].wfile[1]) # None

\* C2: every response sent, whatever the route and the status, carries the
\* header Content-Type: application/json.
C2_ContentTypeEverywhere ==
    closed # None =>
        \A k \in 1..Len(closed[1].wfile) :
            HasHeader(closed[1].wfile[k], "Content-Type", "application/json")

-----------------------------------------------------------------------------
IsNotFound(resp) == resp.status = 404 /\ resp.body = <<"{","\"","e","r","r","o","r","\"",":","\"","N","o","t"," ","F","o","u","n","d","\"","}">>

\* C3: a request whose (method, path) pair is none of the eleven routes is
\* answered 404 with body {"error":"Not Found"}, and a request to a route never
\* is; the path is compared as an exact string, so a listed path under the other
\* method or followed by a query string is unmatched.
C3_NotFoundIffUnrouted ==
    closed # None =>
        IF IsRoute(closed[1].req)
        THEN \A k \in 1..Len(closed[1].wfile) : closed[1].wfile[k].status # 404
        ELSE Answered(closed[1]) /\ IsNotFound(closed[1].wfile[1])

\* A listed path with a query string, and a listed path under the other method.
C3_Witness ==
    /\ closed # None
    /\ \/ On(closed[1], "GET", "/hello?x=1")
       \/ On(closed[1], "GET", "/echo")
       \/ On(closed[1], "POST", "/hello")
    /\ closed[1].req.headers.Authorization = Some(<<"B","e","a","r","e","r"," ","a","b","c","1","2","3","-","d","e","f","4","5","6","-","g","h","i","7","8","9">>)
    /\ IsNotFound(closed[1].wfile[1])

-----------------------------------------------------------------------------
\* The Authorization header is "Basic " and base64 of the text admin:secret, the
\* one text whose part before its first colon is admin and whose rest is secret.
PresentsBasic(auth, id, secret) ==
    LET Text(decoded) == decoded.ok /\ decoded.text = id \o <<":">> \o secret
        Payload(raw) == raw.ok /\ Text(Utf8Decode(raw.bytes))
    IN  /\ auth # None
        /\ StartsWith(auth[1], <<"B","a","s","i","c"," ">>)
        /\ Payload(B64Decode(Drop(auth[1], 6)))

\* C4: POST /secure answers 200 with {"secure":"success","user":"admin"} exactly
\* when the Authorization header starts with "Basic " and its payload decodes to
\* admin before the first colon and secret after it; in every other case it
\* answers 401 with WWW-Authenticate: Basic realm="Login Required" and a JSON
\* error body.
C4_SecureIffAdminSecret ==
    closed # None /\ On(closed[1], "POST", "/secure") =>
        /\ Answered(closed[1])
        /\ IF PresentsBasic(closed[1].req.headers.Authorization, <<"a","d","m","i","n">>, <<"s","e","c","r","e","t">>)
           THEN /\ closed[1].wfile[1].status = 200
                /\ BodyIs(closed[1].wfile[1], <<<<<<"s","e","c","u","r","e">>, JStr(<<"s","u","c","c","e","s","s">>)>>,
                                                <<<<"u","s","e","r">>, JStr(<<"a","d","m","i","n">>)>>>>)
           ELSE /\ closed[1].wfile[1].status = 401
                /\ HasHeader(closed[1].wfile[1], "WWW-Authenticate",
                             "Basic realm=\"Login Required\"")
                /\ IsErrorBody(closed[1].wfile[1])

\* The right user with another password is turned away.
C4_Witness ==
    /\ closed # None /\ On(closed[1], "POST", "/secure")
    /\ closed[1].req.headers.Authorization = Some(<<"B","a","s","i","c"," ","Y","W","R","t","a","W","4","6","d","3","J","v","b","m","c","=">>)
    /\ closed[1].wfile[1].status = 401

-----------------------------------------------------------------------------
IsBearerChallenge(resp) ==
    resp.status = 401 /\ HasHeader(resp, "WWW-Authenticate", "Bearer realm=\"API Access\"")

\* The text after "Bearer " is the static token, character for character.
PresentsExactToken(auth) ==
    auth # None /\ StartsWith(auth[1], <<"B","e","a","r","e","r"," ">>) /\ Drop(auth[1], 7) = <<"a","b","c","1","2","3","-","d","e","f","4","5","6","-","g","h","i","7","8","9">>

\* The text after "Bearer ", whitespace at its ends removed, is the static token.
PresentsStrippedToken(auth) ==
    /\ auth # None
    /\ StartsWith(auth[1], <<"B","e","a","r","e","r"," ">>)
    /\ Strip(Drop(auth[1], 7)) = <<"a","b","c","1","2","3","-","d","e","f","4","5","6","-","g","h","i","7","8","9">>

\* C5 as stated: GET /bearer answers 200 only when the text after "Bearer " is
\* exactly the static token; for any other token text, a missing header or
\* another scheme it answers 401 with WWW-Authenticate: Bearer realm="API Access".
C5_ExactTokenOnly ==
    closed # None /\ On(closed[1], "GET", "/bearer") =>
        /\ Answered(closed[1])
        /\ closed[1].wfile[1].status = 200
               => PresentsExactToken(closed[1].req.headers.Authorization)
        /\ ~PresentsExactToken(closed[1].req.headers.Authorization)
               => IsBearerChallenge(closed[1].wfile[1])

\* C5 as amended: GET /bearer answers 200 only when the text after "Bearer ",
\* with the whitespace at its two ends removed, is exactly the static token; for
\* any other token text, a missing header or another scheme it answers 401 with
\* WWW-Authenticate: Bearer realm="API Access".
C5_StrippedTokenOnly ==
    closed # None /\ On(closed[1], "GET", "/bearer") =>
        /\ Answered(closed[1])
        /\ closed[1].wfile[1].status = 200
               => PresentsStrippedToken(closed[1].req.headers.Authorization)
        /\ ~PresentsStrippedToken(closed[1].req.headers.Authorization)
               => IsBearerChallenge(closed[1].wfile[1])

\* A token with whitespace before it is accepted.
C5_Witness ==
    /\ closed # None /\ On(closed[1], "GET", "/bearer")
    /\ closed[1].req.headers.Authorization = Some(<<"B","e","a","r","e","r"," "," ","\t","a","b","c","1","2","3","-","d","e","f","4","5","6","-","g","h","i","7","8","9">>)
    /\ closed[1].wfile[1].status = 200

-----------------------------------------------------------------------------
\* The key of a request as sent: the text after "ApiKey " when the Authorization
\* header starts with it, the X-API-Key header only otherwise.
SelectedKey(headers) ==
    IF Truthy(headers.Authorization) /\ StartsWith(headers.Authorization[1], <<"A","p","i","K","e","y"," ">>)
    THEN Some(Drop(headers.Authorization[1], 7))
    ELSE headers.XApiKey

ApiKeyOutcome(c, valid) ==
    /\ Answered(c)
    /\ IF valid THEN c.wfile[1].status = 200
       ELSE /\ c.wfile[1].status = 401
            /\ ~HasHeaderNamed(c.wfile[1], "WWW-Authenticate")

\* C6 as stated: GET /apikey takes its key from the Authorization header when
\* that header starts with "ApiKey ", and from X-API-Key only otherwise; it
\* answers 200 exactly when the key so selected equals secret-api-key-123, and
\* in every other case 401 with no WWW-Authenticate header.
C6_SelectedKeyEquals ==
    closed # None /\ On(closed[1], "GET", "/apikey") =>
        ApiKeyOutcome(closed[1], SelectedKey(closed[1].req.headers) = Some(<<"s","e","c","r","e","t","-","a","p","i","-","k","e","y","-","1","2","3">>))

\* C6 as amended: as stated, the key so selected being compared once the
\* whitespace at its two ends is removed.
C6_StrippedKeyEquals ==
    closed # None /\ On(closed[1], "GET", "/apikey") =>
        ApiKeyOutcome(closed[1],
                      /\ SelectedKey(closed[1].req.headers) # None
                      /\ Strip(SelectedKey(closed[1].req.headers)[1]) = <<"s","e","c","r","e","t","-","a","p","i","-","k","e","y","-","1","2","3">>)

\* A padded key in Authorization is accepted, whatever X-API-Key holds.
C6_Witness ==
    /\ closed # None /\ On(closed[1], "GET", "/apikey")
    /\ closed[1].req.headers.Authorization = Some(<<"A","p","i","K","e","y"," ","\t","s","e","c","r","e","t","-","a","p","i","-","k","e","y","-","1","2","3"," ">>)
    /\ closed[1].req.headers.XApiKey = Some(<<"w","r","o","n","g","-","k","e","y">>)
    /\ closed[1].wfile[1].status = 200

-----------------------------------------------------------------------------
\* The label a token endpoint puts in its tokens, and its own static pair.
EndpointLabel(path) ==
    CASE path = "/oauth/token" -> <<"g","e","n","e","r","i","c">>
      [] path = "/oauth2/token" -> <<"c","o","g","n","i","t","o">>
      [] path = "/oauth/token/auth0" -> <<"a","u","t","h","0">>
      [] path = "/oauth/v2/accesstoken" -> <<"a","p","i","g","e","e">>

EndpointPair(path) ==
    CASE path = "/oauth/token" -> <<OAUTH_CLIENT_ID, OAUTH_CLIENT_SECRET>>
      [] path = "/oauth2/token" -> <<OAUTH_COGNITO_CLIENT_ID, OAUTH_COGNITO_CLIENT_SECRET>>
      [] path = "/oauth/token/auth0" -> <<OAUTH_AUTH0_CLIENT_ID, OAUTH_AUTH0_CLIENT_SECRET>>
      [] path = "/oauth/v2/accesstoken" -> <<OAUTH_APIGEE_CLIENT_ID, OAUTH_APIGEE_CLIENT_SECRET>>

\* The fields a parseable body holds: those of the JSON object on the Auth0
\* endpoint, those of the form elsewhere; None when the body cannot be read or,
\* on the Auth0 endpoint, is no JSON object.
BodyFields(req) ==
    LET Object(data) == IF data.ok /\ data.val.t = "dict" THEN Some(data.val.v) ELSE None
        Fields(body) ==
            IF ~body.ok THEN None
            ELSE IF req.path = "/oauth/token/auth0" THEN Object(JsonLoads(body.text))
            ELSE Some(ParseForm(body.text))
    IN  Fields(ReadBody(req))

\* The client presents this pair: in a Basic header on the generic and Cognito
\* endpoints, in the body's client_id and client_secret on the other two.
PresentsPair(req, fields, pair) ==
    IF req.path \in {"/oauth/token", "/oauth2/token"}
    THEN PresentsBasic(req.headers.Authorization, pair[1], pair[2])
    ELSE /\ IsText(Lookup(fields, <<"c","l","i","e","n","t","_","i","d">>), pair[1])
         /\ IsText(Lookup(fields, <<"c","l","i","e","n","t","_","s","e","c","r","e","t">>), pair[2])

\* A 200 answer carrying a token with this label.
IsToken(resp, label) ==
    LET Shown(j) ==
            /\ j # None /\ j[1].t = "dict"
            /\ Lookup(j[1].v, <<"a","c","c","e","s","s","_","t","o","k","e","n">>) # None
            /\ Lookup(j[1].v, <<"a","c","c","e","s","s","_","t","o","k","e","n">>)[1].t = "str"
            /\ StartsWith(Lookup(j[1].v, <<"a","c","c","e","s","s","_","t","o","k","e","n">>)[1].v,
                          <<"o","a","u","t","h","_","t","o","k","e","n","_">> \o label \o <<"_">>)
            /\ IsText(Lookup(j[1].v, <<"t","o","k","e","n","_","t","y","p","e">>), <<"B","e","a","r","e","r">>)
            /\ Lookup(j[1].v, <<"e","x","p","i","r","e","s","_","i","n">>) = Some(JInt(3600))
    IN  resp.status = 200 /\ Shown(BodyJson(resp))

\* grant is whether the request asks for the client_credentials grant.
TokenOutcome(c, fields, grant) ==
    IF fields = None THEN \A k \in 1..Len(c.wfile) : c.wfile[k].status # 200
    ELSE /\ Answered(c)
         /\ IF ~grant THEN IsOauthError(c.wfile[1], <<"u","n","s","u","p","p","o","r","t","e","d","_","g","r","a","n","t","_","t","y","p","e">>)
            ELSE IF ~PresentsPair(c.req, fields[1], EndpointPair(c.req.path))
            THEN IsOauthError(c.wfile[1], <<"i","n","v","a","l","i","d","_","c","l","i","e","n","t">>)
            ELSE IsToken(c.wfile[1], EndpointLabel(c.req.path))

\* The body's grant_type field is client_credentials.
GrantField(fields) ==
    fields # None /\ IsText(Lookup(fields[1], <<"g","r","a","n","t","_","t","y","p","e">>), <<"c","l","i","e","n","t","_","c","r","e","d","e","n","t","i","a","l","s">>)

\* The body holds the text grant_type=client_credentials somewhere.
GrantText(req) ==
    LET Held(body) == body.ok /\ Contains(body.text, <<"g","r","a","n","t","_","t","y","p","e","=","c","l","i","e","n","t","_","c","r","e","d","e","n","t","i","a","l","s">>)
    IN  Held(ReadBody(req))

IsTokenRequest(c) == c.req.method = "POST" /\ c.req.path \in TokenEndpoints

\* C7 as stated: on each of the four token endpoints, with a parseable body: a
\* grant type other than client_credentials is answered 400
\* unsupported_grant_type whatever the credentials; otherwise a
\* client_id/client_secret that is not the endpoint's own pair is answered 400
\* invalid_client; otherwise the answer is 200 with access_token
\* oauth_token_<label>_..., token_type Bearer and expires_in 3600.  No token is
\* issued in any other case.
C7_GrantThenClient ==
    closed # None /\ IsTokenRequest(closed[1]) =>
        TokenOutcome(closed[1], BodyFields(closed[1].req),
                     GrantField(BodyFields(closed[1].req)))

\* C7 as amended: as stated, the grant type counting as client_credentials on
\* /oauth/token and /oauth2/token when the body contains the text
\* grant_type=client_credentials, and on the other two endpoints when the
\* body's grant_type field is client_credentials.
C7_GrantTextThenClient ==
    closed # None /\ IsTokenRequest(closed[1]) =>
        TokenOutcome(closed[1], BodyFields(closed[1].req),
                     IF closed[1].req.path \in {"/oauth/token", "/oauth2/token"}
                     THEN GrantText(closed[1].req)
                     ELSE GrantField(BodyFields(closed[1].req)))

\* The generic endpoint issues a token for the grant type client_credentialsX.
C7_Witness ==
    /\ closed # None /\ On(closed[1], "POST", "/oauth/token")
    /\ closed[1].req.body = Bytes(<<"g","r","a","n","t","_","t","y","p","e","=","c","l","i","e","n","t","_","c","r","e","d","e","n","t","i","a","l","s","X">>)
    /\ closed[1].req.headers.ContentLength = Some(<<"3","0">>)
    /\ IsToken(closed[1].wfile[1], <<"g","e","n","e","r","i","c">>)

-----------------------------------------------------------------------------
\* The token has the shape the endpoint with this label issues.
HasTokenShape(token, label) ==
    LET Stamp(digits) == digits # <<>> /\ \A i \in 1..Len(digits) : IsDigit(digits[i])
        stem == <<"o","a","u","t","h","_","t","o","k","e","n","_">> \o label \o <<"_">>
    IN  StartsWith(token, stem) /\ Stamp(Drop(token, Len(stem)))

Labels == {<<"g","e","n","e","r","i","c">>, <<"c","o","g","n","i","t","o">>, <<"a","u","t","h","0">>, <<"a","p","i","g","e","e">>}

\* The answer of /oauth-test that names this provider for this token.
IsTokenEcho(c, token, label) ==
    /\ Answered(c)
    /\ c.wfile[1].status = 200
    /\ BodyIs(c.wfile[1], <<<<<<"o","a","u","t","h","_","t","e","s","t">>, JStr(<<"s","u","c","c","e","s","s">>)>>,
                            <<<<"t","o","k","e","n","_","v","a","l","i","d">>, JBool(TRUE)>>,
                            <<<<"p","r","o","v","i","d","e","r">>, JStr(label)>>,
                            <<<<"t","o","k","e","n","_","p","r","e","f","i","x">>, JStr(Take(token, 20) \o <<".",".",".">>)>>>>)

TokenRoundTrip(c, token) ==
    /\ c.origin # None => HasTokenShape(token, EndpointLabel(c.origin[1]))
    /\ \A label \in Labels : HasTokenShape(token, label) => IsTokenEcho(c, token, label)

\* C8: the access_token of a 200 answer of any of the four token endpoints,
\* presented afterwards as Authorization: Bearer <access_token> to GET
\* /oauth-test, is answered 200 with token_valid true, the label of the issuing
\* endpoint as provider and the token's first 20 characters plus "..." as
\* token_prefix; a token of that shape that no endpoint issued gets the same.
C8_IssuedTokenRoundTrip ==
    /\ closed # None /\ On(closed[1], "GET", "/oauth-test")
    /\ closed[1].req.headers.Authorization # None
    /\ StartsWith(closed[1].req.headers.Authorization[1], <<"B","e","a","r","e","r"," ">>)
    => TokenRoundTrip(closed[1], Drop(closed[1].req.headers.Authorization[1], 7))

\* A token the Apigee endpoint issued a second after the start has come back.
C8_Witness ==
    /\ closed # None /\ On(closed[1], "GET", "/oauth-test")
    /\ closed[1].origin = Some("/oauth/v2/accesstoken")
    /\ closed[1].req.headers.Authorization = Some(<<"B","e","a","r","e","r"," ","o","a","u","t","h","_","t","o","k","e","n","_","a","p","i","g","e",
        "e","_","1","7","0","0","0","0","0","0","0","1">>)
    /\ closed[1].wfile[1].status = 200

-----------------------------------------------------------------------------
\* An access_token up to its last underscore, followed by a run of digits.
TokenStem(token) ==
    LET Upto(marks) ==
            IF marks = {} THEN <<>>
            ELSE SubSeq(token, 1, CHOOSE m \in marks : \A k \in marks : k <= m)
    IN  Upto({i \in 1..Len(token) : token[i] = "_"})

SameButStamp(a, b) ==
    /\ a.t = "str" /\ b.t = "str"
    /\ TokenStem(a.v) = TokenStem(b.v)
    /\ \A i \in (Len(TokenStem(a.v)) + 1)..Len(a.v) : IsDigit(a.v[i])
    /\ \A i \in (Len(TokenStem(b.v)) + 1)..Len(b.v) : IsDigit(b.v[i])

\* Two token answers alike in every member but the timestamp of access_token.
SameButToken(x, y) ==
    /\ x # None /\ y # None
    /\ x[1].t = "dict" /\ y[1].t = "dict"
    /\ Len(x[1].v) = Len(y[1].v)
    /\ \A i \in 1..Len(x[1].v) :
           /\ x[1].v[i].k = y[1].v[i].k
           /\ \/ x[1].v[i].v = y[1].v[i].v
              \/ x[1].v[i].k = <<"a","c","c","e","s","s","_","t","o","k","e","n">> /\ SameButStamp(x[1].v[i].v, y[1].v[i].v)

SameAnswer(c, other) ==
    /\ c.raised = other.raised
    /\ Len(c.wfile) = Len(other.wfile)
    /\ \A k \in 1..Len(c.wfile) :
           /\ c.wfile[k].status = other.wfile[k].status
           /\ c.wfile[k].headers = other.wfile[k].headers
           /\ \/ c.wfile[k].body = other.wfile[k].body
              \/ /\ HoldsToken(c)
                 /\ SameButToken(BodyJson(c.wfile[k]), BodyJson(other.wfile[k]))

-----------------------------------------------------------------------------
\* C10 (under SpecQueue): the server handles one request at a time: while a GET
\* /slow is suspended no connection waiting behind it has had a response,
\* responses go out in the order the connections were accepted, and every
\* accepted request gets its response (a connection the server has shut down
\* has been sent one).
C10_SerialAndAnswered ==
    /\ \A k \in 1..Len(served) : served[k].id = k /\ served[k].replied
    /\ pc = "sleeping" =>
           \A w \in 1..Len(backlog) : \A k \in 1..Len(served) : served[k].id # backlog[w].id

====
